---- MODULE Spec2Model ----
(***************************************************************************)
(* LifeLink: the donation / request approval workflow.                     *)
(*                                                                         *)
(* The ledger holds two collections, Donation and Request.  Each route     *)
(* handler of routes/donations.js and routes/requests.js is one action:    *)
(* the document is read, changed in memory, validated and saved in one     *)
(* step.  The HTTP status a handler answers with is an operator of the     *)
(* state and the inputs (...Code).  A call that is answered with an error  *)
(* before anything is saved leaves every variable as it was: it is a       *)
(* stuttering step, which [][Next]_vars admits, so the actions are the     *)
(* calls that reach their save.                                            *)
(*                                                                         *)
(* Paths that no handler reads back (owner name, contact snapshot, details,*)
(* rejectionReason, rejectedAt, createdAt, updatedAt) are left out of the  *)
(* documents.  rejectedByHospitals is the bag of the hospitalId values of  *)
(* its elements: the handlers and the queries only ask whether an element  *)
(* with a given hospitalId exists, never for its position.                 *)
(***************************************************************************)
EXTENDS Integers, Sequences, FiniteSets, Bags, TLC

\* ------------------------------------------------------------------ bounds
\* Number of ObjectIds handed out to ledger documents in one behaviour.
MaxEntries == 1

\* Number of clock readings stored into Date paths in one behaviour.
MaxClock == 2

\* Number of hours the clock of the login routes runs through.
MaxHours == 4

\* Largest loginAttempts a failed login starts from.
MaxCount == 6

\* Number of donations created while the creations interleave.
MaxPosts == 3

\* ------------------------------------------------------------------- users
UserIds == {"h1", "h2", "a1", "d1", "d2", "p1", "p2"}

\* User.findById(decoded.userId) returning null: the id has no account
NoUser == [type |-> "absent"]

\* the email of the default admin, which the main-admin checks compare with
MainEmail == "admin@lifelink.com"

\* the email a person registers with
EmailOf(u) == u \o "@lifelink.test"

\* Lock account after 5 failed attempts for 2 hours
MaxAttempts == 5
LockHours == 2

\* a new User document: type and email from the caller, the defaults of
\* loginAttempts and accountLocked, lockUntil unset (0, as an unset Date)
NewUser(type, email) ==
    [type |-> type, email |-> email,
     loginAttempts |-> 0, accountLocked |-> FALSE, lockUntil |-> 0]

\* the default admin created at startup
DefaultAdmin == NewUser("admin", MainEmail)

\* the registered accounts and their type: two hospitals, one owner per role
RegisteredUsers ==
    [u \in UserIds |->
        IF u \in {"h1", "h2"} THEN NewUser("hospital", EmailOf(u))
        ELSE IF u = "a1" THEN DefaultAdmin
        ELSE IF u = "d1" THEN NewUser("donor", EmailOf(u))
        ELSE IF u = "p1" THEN NewUser("patient", EmailOf(u))
        ELSE NoUser]

\* another registry: one hospital, two owners per role
OwnerUsers ==
    [u \in UserIds |->
        IF u = "h1" THEN NewUser("hospital", EmailOf(u))
        ELSE IF u = "a1" THEN DefaultAdmin
        ELSE IF u \in {"d1", "d2"} THEN NewUser("donor", EmailOf(u))
        ELSE IF u \in {"p1", "p2"} THEN NewUser("patient", EmailOf(u))
        ELSE NoUser]

\* ------------------------------------------------------------------ values
NoId    == "none"      \* an ObjectId path that is unset
NoDate  == 0           \* a Date path that is unset (falsy)
NoName  == ""          \* a String path that is unset
NoDoc   == [kind |-> "absent"]
NoStats == [kind |-> "absent"]

\* new Stats({totalUsers: 0, ..., totalDonations: 0})
NewStats == [totalDonations |-> 0, totalUsers |-> 0]

\* the Stats document after the registrations of a registry; the default
\* admin is created without one
StatsOf(registry) ==
    [NewStats EXCEPT !.totalUsers =
        Cardinality({u \in DOMAIN registry : registry[u] \notin {NoUser, DefaultAdmin}})]

Ids == 1 .. MaxEntries

\* req.body.status values a client sends
StatusInputs == {"approved", "rejected", "completed", "cancelled"}

\* req.body.patientId values a client sends (NoId: the key is missing)
PatientIdInputs == {NoId, "p1"}

\* an enum that also admits the status the donor branch assigns
donationStatusEnum_WithCancelled ==
    {"pending", "approved", "rejected", "completed", "expired", "cancelled"}

\* enum of donationSchema.status
donationStatusEnum == {"pending", "approved", "rejected", "completed", "expired"}

\* enum of requestSchema.status
requestStatusEnum == {"pending", "approved", "rejected", "completed", "cancelled"}

\* a handler that is not between its findById and its save
Idle == [kind |-> "idle"]

\* held[c] is the document a PATCH handler of caller c has read and not yet
\* saved, or Idle
VARIABLES users, donations, requests, nextId, stats, now, held

vars == <<users, donations, requests, nextId, stats, now, held>>

\* req.user.type of the authenticated caller
userType(c) == users[c].type

Hospitals == {u \in UserIds : userType(u) = "hospital"}

\* the auth middleware: the callers whose token names an account; every
\* other call is answered 401 before its handler runs
Authenticated(c) == users[c] # NoUser
Accounts == {u \in UserIds : Authenticated(u)}

\* ------------------------------------------------------------ constructors
\* new Donation({donorId, ..., status: 'pending'})
NewDonation(c) ==
    [kind |-> "donation", donorId |-> c, status |-> "pending",
     hospitalId |-> NoId, hospitalName |-> NoName, patientId |-> NoId, approvedBy |-> NoId,
     rejectedByHospitals |-> EmptyBag, approvedAt |-> NoDate, completedAt |-> NoDate]

\* new Request({patientId, ..., status: 'pending'})
NewRequest(c) ==
    [kind |-> "request", patientId |-> c, status |-> "pending",
     hospitalId |-> NoId, hospitalName |-> NoName, approvedBy |-> NoId,
     rejectedByHospitals |-> EmptyBag, approvedAt |-> NoDate, completedAt |-> NoDate]

\* req.user.profile?.name || req.user.data[req.user.type + '-name']
hospitalNameOf(c) == "name of " \o c

\* rejectedByHospitals.find(r => r.hospitalId.toString() === req.user._id.toString())
existingRejection(doc, c) == BagIn(c, doc.rejectedByHospitals)

\* a reject branch that pushes without looking for an existing element
RejectBranch_AlwaysPush(doc, c) ==
    [doc EXCEPT !.rejectedByHospitals = @ (+) SetToBag({c})]

\* a reject branch that also stores the global status rejected
RejectBranch_SetsStatus(doc, c) ==
    IF ~ existingRejection(doc, c)
    THEN [doc EXCEPT !.rejectedByHospitals = @ (+) SetToBag({c}), !.status = "rejected"]
    ELSE [doc EXCEPT !.status = "rejected"]

\* the reject branch: push one element unless the caller already has one
RejectBranch(doc, c) ==
    IF ~ existingRejection(doc, c)
    THEN [doc EXCEPT !.rejectedByHospitals = @ (+) SetToBag({c})]
    ELSE doc

\* an approve branch that sets the status and leaves the assignment out
ApproveBranch_NoAssign(doc, c) ==
    [doc EXCEPT !.status = "approved", !.approvedBy = c]

\* the approve branch: status, hospitalId and approvedBy from the caller
ApproveBranch(doc, c) ==
    [doc EXCEPT !.status = "approved", !.hospitalId = c,
                !.hospitalName = hospitalNameOf(c), !.approvedBy = c]

\* a hook that stamps on every save of an approved or completed document
PreSave_Unconditional(old, doc, t) ==
    [doc EXCEPT
        !.approvedAt  = IF doc.status = "approved" THEN t ELSE @,
        !.completedAt = IF doc.status = "completed" THEN t ELSE @]

\* pre('save') hook: status-specific timestamps, written when status was
\* modified and the timestamp is still unset.  old is the stored document,
\* t the reading of the clock.
PreSave(old, doc, t) ==
    IF doc.status # old.status
    THEN [doc EXCEPT
            !.approvedAt  = IF doc.status = "approved" /\ @ = NoDate THEN t ELSE @,
            !.completedAt = IF doc.status = "completed" /\ @ = NoDate THEN t ELSE @]
    ELSE doc

\* the hook stores a reading of the clock
StoresDate(old, doc) == PreSave(old, doc, MaxClock + 1) # doc

Init ==
    /\ users = RegisteredUsers
    /\ donations = [i \in Ids |-> NoDoc]
    /\ requests = [i \in Ids |-> NoDoc]
    /\ nextId = 1
    /\ stats = StatsOf(RegisteredUsers)
    /\ now = 1
    /\ held = [u \in UserIds |-> Idle]

\* the same start with the registry of two owners per role
InitOwners ==
    /\ users = OwnerUsers
    /\ donations = [i \in Ids |-> NoDoc]
    /\ requests = [i \in Ids |-> NoDoc]
    /\ nextId = 1
    /\ stats = StatsOf(OwnerUsers)
    /\ now = 1
    /\ held = [u \in UserIds |-> Idle]

\* ------------------------------------------------------------------ create
\* POST /donations: the status of the answer
CreateDonationCode(c) ==
    IF ~ Authenticated(c) THEN 401
    ELSE IF userType(c) # "donor" THEN 400
    ELSE IF stats = NoStats THEN 400
    ELSE 201

\* POST /donations with a handler that creates the missing Stats document
CreateDonation_CreatesStats(c) ==
    /\ userType(c) = "donor"
    /\ nextId <= MaxEntries
    /\ donations' = [donations EXCEPT ![nextId] = NewDonation(c)]
    /\ nextId' = nextId + 1
    /\ stats' = [(IF stats = NoStats THEN NewStats ELSE stats)
                    EXCEPT !.totalDonations = @ + 1]
    /\ UNCHANGED <<users, requests, now, held>>

\* POST /donations
CreateDonation(c) ==
    /\ userType(c) = "donor"
    /\ nextId <= MaxEntries
    /\ donations' = [donations EXCEPT ![nextId] = NewDonation(c)]
    /\ nextId' = nextId + 1
    /\ stats' = IF stats = NoStats THEN stats
                ELSE [stats EXCEPT !.totalDonations = @ + 1]
    /\ UNCHANGED <<users, requests, now, held>>

\* POST /requests: the status of the answer
CreateRequestCode(c) ==
    IF ~ Authenticated(c) THEN 401
    ELSE IF userType(c) # "patient" THEN 403
    ELSE 201

\* POST /requests
CreateRequest(c) ==
    /\ CreateRequestCode(c) = 201
    /\ nextId <= MaxEntries
    /\ requests' = [requests EXCEPT ![nextId] = NewRequest(c)]
    /\ nextId' = nextId + 1
    /\ stats' = IF stats = NoStats THEN NewStats ELSE stats
    /\ UNCHANGED <<users, donations, now, held>>

\* ------------------------------------------------------------------- patch
\* what a handler holds when a branch has thrown
Thrown == [kind |-> "thrown"]

\* authorization branches whose hospital branch does not check the target
DonationBranches_NoTargetCheck(doc, c, status) ==
    IF userType(c) = "hospital"
    THEN IF status = "approved" THEN ApproveBranch(doc, c)
         ELSE IF status = "rejected" THEN RejectBranch(doc, c)
         ELSE IF status = "completed" THEN [doc EXCEPT !.status = "completed"]
         ELSE doc
    ELSE IF userType(c) = "donor"
    THEN IF doc.donorId # c \/ status \notin {"cancelled"} THEN Thrown
         ELSE [doc EXCEPT !.status = status]
    ELSE IF userType(c) # "admin" THEN Thrown
    ELSE doc

\* PATCH /donations/:id, the authorization branches: the in-memory document
\* before patientId and save, or Thrown
DonationBranches(doc, c, status) ==
    IF userType(c) = "hospital"
    THEN IF status \notin {"approved", "rejected", "completed"} THEN Thrown
         ELSE IF status = "approved" THEN ApproveBranch(doc, c)
         ELSE IF status = "rejected" THEN RejectBranch(doc, c)
         ELSE [doc EXCEPT !.status = "completed"]
    ELSE IF userType(c) = "donor"
    THEN IF doc.donorId # c \/ status \notin {"cancelled"} THEN Thrown
         ELSE [doc EXCEPT !.status = status]
    ELSE IF userType(c) # "admin" THEN Thrown
    ELSE doc

\* if (req.body.patientId) donation.patientId = req.body.patientId
AssignPatient(doc, pid) ==
    IF pid # NoId THEN [doc EXCEPT !.patientId = pid] ELSE doc

\* PATCH /donations/:id: the document handed to save(), or Thrown
DonationToSave(c, id, status, pid) ==
    LET old == donations[id]
        br  == IF old = NoDoc THEN Thrown ELSE DonationBranches(old, c, status)
    IN  IF br = Thrown THEN Thrown ELSE AssignPatient(br, pid)

\* PATCH /donations/:id: the status of the answer; a validation error of
\* save() is caught like every other throw
PatchDonationCode(c, id, status, pid) ==
    LET doc == DonationToSave(c, id, status, pid)
    IN  IF ~ Authenticated(c) THEN 401
        ELSE IF doc = Thrown \/ doc.status \notin donationStatusEnum THEN 400
        ELSE 200

\* PATCH /donations/:id: the document save() stores when the answer is 200
DonationSaved(c, id, status, pid) ==
    PreSave(donations[id], DonationToSave(c, id, status, pid), now)

\* PATCH /donations/:id
PatchDonation(c, id, status, pid) ==
    LET old == donations[id]
        doc == DonationToSave(c, id, status, pid)
    IN  /\ PatchDonationCode(c, id, status, pid) = 200
        /\ StoresDate(old, doc) => now <= MaxClock
        /\ donations' = [donations EXCEPT ![id] = DonationSaved(c, id, status, pid)]
        /\ now' = IF StoresDate(old, doc) THEN now + 1 ELSE now
        /\ UNCHANGED <<users, requests, nextId, stats, held>>

\* status branches whose last branch assigns hospitalId and leaves approvedBy
RequestBranches_CompleteKeepsApprover(doc, c, status) ==
    IF status = "approved" THEN ApproveBranch(doc, c)
    ELSE IF status = "rejected" THEN RejectBranch(doc, c)
    ELSE [doc EXCEPT !.status = status, !.hospitalId = c,
                     !.hospitalName = hospitalNameOf(c)]

\* PATCH /requests/:id, the status branches
RequestBranches(doc, c, status) ==
    IF status = "approved" THEN ApproveBranch(doc, c)
    ELSE IF status = "rejected" THEN RejectBranch(doc, c)
    ELSE [doc EXCEPT !.status = status, !.hospitalId = c,
                     !.hospitalName = hospitalNameOf(c), !.approvedBy = c]

\* PATCH /requests/:id: the status of the answer
PatchRequestCode(c, id, status) ==
    IF ~ Authenticated(c) THEN 401
    ELSE IF userType(c) \notin {"hospital", "admin"} THEN 403
    ELSE IF requests[id] = NoDoc THEN 404
    ELSE IF status \notin {"approved", "rejected", "completed"} THEN 400
    ELSE IF RequestBranches(requests[id], c, status).status \notin requestStatusEnum THEN 400
    ELSE 200

\* PATCH /requests/:id: the document save() stores when the answer is 200
RequestSaved(c, id, status) ==
    PreSave(requests[id], RequestBranches(requests[id], c, status), now)

\* PATCH /requests/:id
PatchRequest(c, id, status) ==
    LET old == requests[id]
        doc == RequestBranches(old, c, status)
    IN  /\ PatchRequestCode(c, id, status) = 200
        /\ StoresDate(old, doc) => now <= MaxClock
        /\ requests' = [requests EXCEPT ![id] = RequestSaved(c, id, status)]
        /\ now' = IF StoresDate(old, doc) THEN now + 1 ELSE now
        /\ UNCHANGED <<users, donations, nextId, stats, held>>

\* ------------------------------------------------------------------ delete
\* an answer that lets every donor delete, owner or not
DeleteDonationCode_NoOwnerCheck(c, id) ==
    IF ~ Authenticated(c) THEN 401
    ELSE IF donations[id] = NoDoc THEN 404
    ELSE IF userType(c) \in {"donor", "admin"} THEN 200
    ELSE 403

\* DELETE /donations/:id: the status of the answer
DeleteDonationCode(c, id) ==
    IF ~ Authenticated(c) THEN 401
    ELSE IF donations[id] = NoDoc THEN 404
    ELSE IF userType(c) = "donor"
    THEN IF donations[id].donorId # c THEN 403 ELSE 200
    ELSE IF userType(c) = "admin" THEN 200
    ELSE 403

\* DELETE /donations/:id
DeleteDonation(c, id) ==
    /\ DeleteDonationCode(c, id) = 200
    /\ donations' = [donations EXCEPT ![id] = NoDoc]
    /\ UNCHANGED <<users, requests, nextId, stats, now, held>>

\* DELETE /requests/:id: the status of the answer
DeleteRequestCode(c, id) ==
    IF ~ Authenticated(c) THEN 401
    ELSE IF requests[id] = NoDoc THEN 404
    ELSE IF userType(c) = "patient"
    THEN IF requests[id].patientId # c THEN 403 ELSE 200
    ELSE IF userType(c) = "admin" THEN 200
    ELSE 403

\* a delete that marks the request cancelled and keeps the document
DeleteRequest_Soft(c, id) ==
    /\ DeleteRequestCode(c, id) = 200
    /\ requests' = [requests EXCEPT ![id].status = "cancelled"]
    /\ UNCHANGED <<users, donations, nextId, stats, now, held>>

\* DELETE /requests/:id
DeleteRequest(c, id) ==
    /\ DeleteRequestCode(c, id) = 200
    /\ requests' = [requests EXCEPT ![id] = NoDoc]
    /\ UNCHANGED <<users, donations, nextId, stats, now, held>>

\* -------------------------------------------------------------------- list
\* a pending arm with $eq in the place of $ne
PendingArm_OnlyRejected(doc, c) == doc.status = "pending" /\ existingRejection(doc, c)

\* first arm of the hospital $or: pending and not rejected by the caller
PendingArm(doc, c) == doc.status = "pending" /\ ~ existingRejection(doc, c)

\* an approved arm that also selects the completed entries of the caller
ApprovedArm_OrCompleted(doc, c) ==
    doc.status \in {"approved", "completed"} /\ doc.hospitalId = c

\* second arm of the hospital $or: approved and assigned to the caller
ApprovedArm(doc, c) == doc.status = "approved" /\ doc.hospitalId = c

\* third arm of the hospital $or: status rejected and assigned to the caller
RejectedArm(doc, c) == doc.status = "rejected" /\ doc.hospitalId = c

\* fourth arm of the hospital $or: the caller has an element in the array
RejectedByArm(doc, c) == existingRejection(doc, c)

\* a hospital query without the arm over the rejectedByHospitals array
HospitalQuery_NoRejectedByArm(doc, c) ==
    \/ PendingArm(doc, c)
    \/ ApprovedArm(doc, c)
    \/ RejectedArm(doc, c)

\* a hospital query whose array arm only selects pending documents
HospitalQuery_RejectedWhilePending(doc, c) ==
    \/ PendingArm(doc, c)
    \/ ApprovedArm(doc, c)
    \/ RejectedArm(doc, c)
    \/ (doc.status = "pending" /\ RejectedByArm(doc, c))

\* $or of the hospital query, the same in GET /donations and GET /requests
HospitalQuery(doc, c) ==
    \/ PendingArm(doc, c)
    \/ ApprovedArm(doc, c)
    \/ RejectedArm(doc, c)
    \/ RejectedByArm(doc, c)

\* GET /donations: the ids of the documents returned to caller c
ListDonations(c) ==
    {i \in Ids : /\ donations[i] # NoDoc
                 /\ IF userType(c) = "donor" THEN donations[i].donorId = c
                    ELSE IF userType(c) = "hospital" THEN HospitalQuery(donations[i], c)
                    ELSE IF userType(c) = "patient" THEN donations[i].patientId = c
                    ELSE TRUE}

\* GET /requests: the ids of the documents returned to caller c (a donor gets 403)
ListRequests(c) ==
    {i \in Ids : /\ requests[i] # NoDoc
                 /\ IF userType(c) = "patient" THEN requests[i].patientId = c
                    ELSE IF userType(c) = "hospital" THEN HospitalQuery(requests[i], c)
                    ELSE IF userType(c) = "admin" THEN TRUE
                    ELSE FALSE}

\* ------------------------------------------------------------ specification
Next ==
    \/ \E c \in Accounts : CreateDonation(c)
    \/ \E c \in Accounts : CreateRequest(c)
    \/ \E c \in Accounts, id \in Ids, status \in StatusInputs, pid \in PatientIdInputs :
          PatchDonation(c, id, status, pid)
    \/ \E c \in Accounts, id \in Ids, status \in StatusInputs : PatchRequest(c, id, status)
    \/ \E c \in Accounts, id \in Ids : DeleteDonation(c, id)
    \/ \E c \in Accounts, id \in Ids : DeleteRequest(c, id)

Spec == Init /\ [][Next]_vars

\* the same routes over the registry of two owners per role
SpecOwners == InitOwners /\ [][Next]_vars

\* -------------------------------------------- PATCH, read and save apart
\* Every await of a handler lets other handlers run.  Here the findById and
\* the save() of a PATCH by a hospital are two steps, one handler per hospital
\* at a time; the other routes are as above.  The branches between the two
\* run without an await, so a handler that throws in them holds nothing and
\* the target status can be drawn at the save.  The racing handlers send
\* approved or rejected and no patientId.
RaceInputs == {"approved", "rejected"}

\* what a handler holds after findById: the collection, the id and the document
Held(coll, id, doc) == [kind |-> "held", coll |-> coll, id |-> id, doc |-> doc]

\* a save() that matches on the version the handler has read
SaveAccepted_Versioned(stored, base) == stored = base

\* save() matches on _id alone: it fails only when the document is gone
SaveAccepted(stored, base) == stored # NoDoc

\* save() of an existing document: updateOne with $set of the paths the
\* handler has modified (doc against base, the document it has read) and
\* $push of the elements it has pushed; the other paths stay as stored
Written(stored, base, doc) ==
    [stored EXCEPT
        !.status       = IF doc.status # base.status THEN doc.status ELSE @,
        !.hospitalId   = IF doc.hospitalId # base.hospitalId THEN doc.hospitalId ELSE @,
        !.hospitalName = IF doc.hospitalName # base.hospitalName THEN doc.hospitalName ELSE @,
        !.approvedBy   = IF doc.approvedBy # base.approvedBy THEN doc.approvedBy ELSE @,
        !.patientId    = IF doc.patientId # base.patientId THEN doc.patientId ELSE @,
        !.approvedAt   = IF doc.approvedAt # base.approvedAt THEN doc.approvedAt ELSE @,
        !.completedAt  = IF doc.completedAt # base.completedAt THEN doc.completedAt ELSE @,
        !.rejectedByHospitals = @ (+) (doc.rejectedByHospitals (-) base.rejectedByHospitals)]

\* PATCH /donations/:id up to findById
FindDonation(c, id) ==
    /\ userType(c) = "hospital"
    /\ held[c] = Idle
    /\ donations[id] # NoDoc
    /\ held' = [held EXCEPT ![c] = Held("donations", id, donations[id])]
    /\ UNCHANGED <<users, donations, requests, nextId, stats, now>>

\* PATCH /donations/:id after findById: the document handed to save(), or Thrown
HeldDonationToSave(c, status, pid) ==
    LET br == DonationBranches(held[c].doc, c, status)
    IN  IF br = Thrown THEN Thrown ELSE AssignPatient(br, pid)

\* PATCH /donations/:id after findById: the status of the answer
SaveDonationCode(c, status, pid) ==
    LET doc == HeldDonationToSave(c, status, pid)
    IN  IF doc = Thrown \/ doc.status \notin donationStatusEnum THEN 400
        ELSE IF ~ SaveAccepted(donations[held[c].id], held[c].doc) THEN 400
        ELSE 200

\* PATCH /donations/:id after findById
SaveDonation(c, status, pid) ==
    /\ held[c] # Idle
    /\ held[c].coll = "donations"
    /\ HeldDonationToSave(c, status, pid) # Thrown
    /\ LET base == held[c].doc
           doc  == HeldDonationToSave(c, status, pid)
       IN  IF SaveDonationCode(c, status, pid) = 200
           THEN /\ StoresDate(base, doc) => now <= MaxClock
                /\ donations' = [donations EXCEPT ![held[c].id] =
                                    Written(@, base, PreSave(base, doc, now))]
                /\ now' = IF StoresDate(base, doc) THEN now + 1 ELSE now
           ELSE UNCHANGED <<donations, now>>
    /\ held' = [held EXCEPT ![c] = Idle]
    /\ UNCHANGED <<users, requests, nextId, stats>>

\* PATCH /requests/:id up to findById
FindRequest(c, id) ==
    /\ userType(c) = "hospital"
    /\ held[c] = Idle
    /\ requests[id] # NoDoc
    /\ held' = [held EXCEPT ![c] = Held("requests", id, requests[id])]
    /\ UNCHANGED <<users, donations, requests, nextId, stats, now>>

\* PATCH /requests/:id after findById: the status of the answer
SaveRequestCode(c, status) ==
    IF status \notin {"approved", "rejected", "completed"} THEN 400
    ELSE IF RequestBranches(held[c].doc, c, status).status \notin requestStatusEnum THEN 400
    ELSE IF ~ SaveAccepted(requests[held[c].id], held[c].doc) THEN 400
    ELSE 200

\* PATCH /requests/:id after findById
SaveRequest(c, status) ==
    /\ held[c] # Idle
    /\ held[c].coll = "requests"
    /\ status \in {"approved", "rejected", "completed"}
    /\ LET base == held[c].doc
           doc  == RequestBranches(base, c, status)
       IN  IF SaveRequestCode(c, status) = 200
           THEN /\ StoresDate(base, doc) => now <= MaxClock
                /\ requests' = [requests EXCEPT ![held[c].id] =
                                   Written(@, base, PreSave(base, doc, now))]
                /\ now' = IF StoresDate(base, doc) THEN now + 1 ELSE now
           ELSE UNCHANGED <<requests, now>>
    /\ held' = [held EXCEPT ![c] = Idle]
    /\ UNCHANGED <<users, donations, nextId, stats>>

NextRace ==
    \/ \E c \in Accounts : CreateDonation(c)
    \/ \E c \in Accounts : CreateRequest(c)
    \/ \E c \in Accounts, id \in Ids : FindDonation(c, id)
    \/ \E c \in Accounts, status \in RaceInputs : SaveDonation(c, status, NoId)
    \/ \E c \in Accounts, id \in Ids : FindRequest(c, id)
    \/ \E c \in Accounts, status \in RaceInputs : SaveRequest(c, status)
    \/ \E c \in Accounts, id \in Ids : DeleteDonation(c, id)
    \/ \E c \in Accounts, id \in Ids : DeleteRequest(c, id)

SpecRace == Init /\ [][NextRace]_vars

\* ------------------------------------------------------------ users routes
\* the people who register in the behaviours of the users routes
Registrants == {"d1", "d2"}

\* req.body.type values a client sends to /register
TypeInputs == {"donor", "patient", "admin"}

\* req.body values a client sends to PATCH /profile: the keys to assign
ProfileInputs ==
    {[type |-> "admin"], [type |-> "donor"], [email |-> MainEmail],
     [accountLocked |-> FALSE], [loginAttempts |-> 0]}

\* User.findOne({ email }): the email belongs to an account
existingUser(email) == \E v \in UserIds : users[v] # NoUser /\ users[v].email = email

\* let stats = await Stats.findOne({}); if (!stats) stats = new Stats({...});
\* stats.totalUsers += 1
CountUser == [(IF stats = NoStats THEN NewStats ELSE stats) EXCEPT !.totalUsers = @ + 1]

\* POST /register, open to every client: the status of the answer
RegisterCode(u, type) == IF existingUser(EmailOf(u)) THEN 400 ELSE 201

\* POST /register by the person u
Register(u, type) ==
    /\ users[u] = NoUser
    /\ RegisterCode(u, type) = 201
    /\ users' = [users EXCEPT ![u] = NewUser(type, EmailOf(u))]
    /\ stats' = CountUser
    /\ UNCHANGED <<donations, requests, nextId, now, held>>

\* mainAdminAuth: the caller's email is the one of the default admin
mainAdminAuth(c) == users[c].email = MainEmail

\* POST /create-admin: the status of the answer
CreateAdminCode(c, u) ==
    IF ~ Authenticated(c) THEN 401
    ELSE IF ~ mainAdminAuth(c) THEN 403
    ELSE IF existingUser(EmailOf(u)) THEN 400
    ELSE 201

\* POST /create-admin by caller c for the person u
CreateAdmin(c, u) ==
    /\ users[u] = NoUser
    /\ CreateAdminCode(c, u) = 201
    /\ users' = [users EXCEPT ![u] = NewUser("admin", EmailOf(u))]
    /\ stats' = CountUser
    /\ UNCHANGED <<donations, requests, nextId, now, held>>

\* updates.forEach(update => req.user[update] = req.body[update])
Assigned(doc, body) ==
    [type          |-> IF "type" \in DOMAIN body THEN body.type ELSE doc.type,
     email         |-> IF "email" \in DOMAIN body THEN body.email ELSE doc.email,
     loginAttempts |-> IF "loginAttempts" \in DOMAIN body
                       THEN body.loginAttempts ELSE doc.loginAttempts,
     accountLocked |-> IF "accountLocked" \in DOMAIN body
                       THEN body.accountLocked ELSE doc.accountLocked,
     lockUntil     |-> IF "lockUntil" \in DOMAIN body THEN body.lockUntil ELSE doc.lockUntil]

\* PATCH /profile: the status of the answer; save() fails on the unique
\* index of email
UpdateProfileCode(c, body) ==
    IF ~ Authenticated(c) THEN 401
    ELSE IF Assigned(users[c], body).email # users[c].email
            /\ existingUser(Assigned(users[c], body).email) THEN 400
    ELSE 200

\* PATCH /profile
UpdateProfile(c, body) ==
    /\ UpdateProfileCode(c, body) = 200
    /\ users' = [users EXCEPT ![c] = Assigned(@, body)]
    /\ UNCHANGED <<donations, requests, nextId, stats, now, held>>

\* the throws of DELETE /:userId without the main-admin check
DeleteUserRefused_NoMainCheck(c, t) ==
    \/ ~ Authenticated(c)
    \/ userType(c) # "admin"
    \/ users[t] = NoUser
    \/ users[t].email = MainEmail

\* DELETE /:userId: the call is refused by one of the throws before
\* findByIdAndDelete
DeleteUserRefused(c, t) ==
    \/ ~ Authenticated(c)
    \/ userType(c) # "admin"
    \/ users[t] = NoUser
    \/ userType(t) = "admin" /\ ~ mainAdminAuth(c)
    \/ users[t].email = MainEmail

\* DELETE /:userId: the status of the answer; without a Stats document the
\* handler throws after the user is deleted
DeleteUserCode(c, t) ==
    IF ~ Authenticated(c) THEN 401
    ELSE IF DeleteUserRefused(c, t) THEN 400
    ELSE IF stats = NoStats THEN 400
    ELSE 200

\* DELETE /:userId
DeleteUser(c, t) ==
    /\ ~ DeleteUserRefused(c, t)
    /\ users' = [users EXCEPT ![t] = NoUser]
    /\ stats' = IF stats = NoStats THEN stats
                ELSE [stats EXCEPT !.totalUsers = @ - 1]
    /\ UNCHANGED <<donations, requests, nextId, now, held>>

\* the state after server start: the default admin and nothing else
InitUsers ==
    /\ users = [u \in UserIds |-> IF u = "a1" THEN DefaultAdmin ELSE NoUser]
    /\ donations = [i \in Ids |-> NoDoc]
    /\ requests = [i \in Ids |-> NoDoc]
    /\ nextId = 1
    /\ stats = NoStats
    /\ now = 1
    /\ held = [u \in UserIds |-> Idle]

NextUsers ==
    \/ \E u \in Registrants, type \in TypeInputs : Register(u, type)
    \/ \E c \in Accounts, u \in Registrants : CreateAdmin(c, u)
    \/ \E c \in Accounts, body \in ProfileInputs : UpdateProfile(c, body)
    \/ \E c \in Accounts, t \in UserIds : DeleteUser(c, t)
    \/ \E c \in Accounts : CreateDonation(c)

SpecUsers == InitUsers /\ [][NextUsers]_vars

\* ------------------------------------------------------------------- login
\* userSchema.methods.isLocked
isLocked(doc) == doc.accountLocked /\ doc.lockUntil # 0 /\ doc.lockUntil > now

\* userSchema.methods.incLoginAttempts
incLoginAttempts(doc) ==
    IF doc.lockUntil # 0 /\ doc.lockUntil < now
    THEN [doc EXCEPT !.lockUntil = 0, !.loginAttempts = 1]
    ELSE IF doc.loginAttempts + 1 >= MaxAttempts /\ ~ isLocked(doc)
    THEN [doc EXCEPT !.loginAttempts = @ + 1, !.accountLocked = TRUE,
                     !.lockUntil = now + LockHours]
    ELSE [doc EXCEPT !.loginAttempts = @ + 1]

\* userSchema.methods.resetLoginAttempts
resetLoginAttempts(doc) ==
    [doc EXCEPT !.loginAttempts = 0, !.lockUntil = 0, !.accountLocked = FALSE]

\* POST /login for the account u with a right or a wrong password: the
\* status of the answer
LoginCode(u, passwordValid) ==
    IF users[u] = NoUser THEN 400
    ELSE IF isLocked(users[u]) THEN 423
    ELSE IF ~ passwordValid THEN 400
    ELSE 200

\* POST /login past the lock check: a wrong password counts, a right one
\* resets the count
Login(u, passwordValid) ==
    /\ LoginCode(u, passwordValid) \in {200, 400}
    /\ users[u] # NoUser
    /\ passwordValid \/ users[u].loginAttempts <= MaxCount
    /\ users' = [users EXCEPT ![u] =
                    IF ~ passwordValid THEN incLoginAttempts(@)
                    ELSE IF @.loginAttempts > 0 THEN resetLoginAttempts(@)
                    ELSE @]
    /\ UNCHANGED <<donations, requests, nextId, stats, now, held>>

\* an hour passes
Tick ==
    /\ now < MaxHours
    /\ now' = now + 1
    /\ UNCHANGED <<users, donations, requests, nextId, stats, held>>

\* the accounts that log in: the default admin and one donor
LoginUsers ==
    [u \in UserIds |->
        IF u = "a1" THEN DefaultAdmin
        ELSE IF u = "d1" THEN NewUser("donor", EmailOf(u))
        ELSE NoUser]

InitLogin ==
    /\ users = LoginUsers
    /\ donations = [i \in Ids |-> NoDoc]
    /\ requests = [i \in Ids |-> NoDoc]
    /\ nextId = 1
    /\ stats = StatsOf(LoginUsers)
    /\ now = 1
    /\ held = [u \in UserIds |-> Idle]

NextLogin ==
    \/ \E u \in Accounts, passwordValid \in BOOLEAN : Login(u, passwordValid)
    \/ \E c \in Accounts, body \in ProfileInputs : UpdateProfile(c, body)
    \/ Tick

SpecLogin == InitLogin /\ [][NextLogin]_vars

\* ------------------------------------------- POST /donations, step by step
\* the handler has answered with a status
Answered(code) == [kind |-> "answered", code |-> code]

\* caller c has no POST /donations in flight
NotPosting(c) == held[c].kind \in {"idle", "answered"}

\* POST /donations up to await donation.save()
PostDonation(c) ==
    /\ userType(c) = "donor"
    /\ NotPosting(c)
    /\ nextId <= MaxPosts
    /\ donations' = [donations EXCEPT ![nextId] = NewDonation(c)]
    /\ nextId' = nextId + 1
    /\ held' = [held EXCEPT ![c] = [kind |-> "saved", id |-> nextId]]
    /\ UNCHANGED <<users, requests, stats, now>>

\* const stats = await Stats.findOne({}); stats.totalDonations += 1 on the
\* copy read; a missing document throws
ReadStats(c) ==
    /\ held[c].kind = "saved"
    /\ held' = [held EXCEPT ![c] =
                    IF stats = NoStats THEN Answered(400)
                    ELSE [kind |-> "read", id |-> @.id, stats |-> stats]]
    /\ UNCHANGED <<users, donations, requests, nextId, stats, now>>

\* a save that increments the stored counter
WriteStats_Inc(c) ==
    /\ held[c].kind = "read"
    /\ stats' = [stats EXCEPT !.totalDonations = @ + 1]
    /\ held' = [held EXCEPT ![c] = Answered(201)]
    /\ UNCHANGED <<users, donations, requests, nextId, now>>

\* await stats.save(): $set of the modified path to the value read plus
\* one; res.status(201)
WriteStats(c) ==
    /\ held[c].kind = "read"
    /\ stats' = [stats EXCEPT !.totalDonations = held[c].stats.totalDonations + 1]
    /\ held' = [held EXCEPT ![c] = Answered(201)]
    /\ UNCHANGED <<users, donations, requests, nextId, now>>

\* two donors and an empty ledger of MaxPosts places
InitStats ==
    /\ users = OwnerUsers
    /\ donations = [i \in 1 .. MaxPosts |-> NoDoc]
    /\ requests = [i \in Ids |-> NoDoc]
    /\ nextId = 1
    /\ stats = StatsOf(OwnerUsers)
    /\ now = 1
    /\ held = [u \in UserIds |-> Idle]

NextStats ==
    \/ \E c \in Accounts : PostDonation(c)
    \/ \E c \in Accounts : ReadStats(c)
    \/ \E c \in Accounts : WriteStats(c)

SpecStats == InitStats /\ [][NextStats]_vars

\* ============================================================== properties
\* the documents of both collections stored under id i
Docs(i) == {donations[i], requests[i]} \ {NoDoc}

\* a step that leaves the donation / request i in the ledger
KeptD(i) == donations[i] # NoDoc /\ donations'[i] # NoDoc
KeptR(i) == requests[i] # NoDoc /\ requests'[i] # NoDoc

\* a step after which the donation / request i is in the ledger and is seen
\* differently than before: the document or the accounts have changed
TouchedD(i) == donations'[i] # NoDoc /\ (donations'[i] # donations[i] \/ users' # users)
TouchedR(i) == requests'[i] # NoDoc /\ (requests'[i] # requests[i] \/ users' # users)

\* a step of a PATCH by c with the given target status that reached its save
PatchedD(c, i, status) ==
    /\ donations[i] # NoDoc
    /\ donations'[i] # donations[i]
    /\ \E pid \in PatientIdInputs : PatchDonation(c, i, status, pid)
PatchedR(c, i, status) ==
    /\ requests[i] # NoDoc
    /\ requests'[i] # requests[i]
    /\ PatchRequest(c, i, status)

\* C1: in every reachable state the rejectedByHospitals array of every
\* donation and request holds at most one element per hospital identity.
C1_OneRejectionPerHospital ==
    \A i \in Ids : \A doc \in Docs(i) : \A h \in UserIds :
        CopiesIn(h, doc.rejectedByHospitals) <= 1

\* C1 witness: a request that both hospitals have rejected.
C1_Witness ==
    \E i \in Ids : /\ requests[i] # NoDoc
                   /\ existingRejection(requests[i], "h1")
                   /\ existingRejection(requests[i], "h2")

\* C2: a successful reject leaves the stored status as it was, so a pending
\* entry is pending after any number of rejections.
C2_RejectKeepsStatus ==
    [][\A c \in Accounts, i \in Ids :
          /\ PatchedD(c, i, "rejected") => donations'[i].status = donations[i].status
          /\ PatchedR(c, i, "rejected") => requests'[i].status = requests[i].status]_vars

\* C2 witness: a donation rejected by both hospitals and still pending.
C2_Witness ==
    \E i \in Ids : /\ donations[i] # NoDoc
                   /\ donations[i].status = "pending"
                   /\ BagCardinality(donations[i].rejectedByHospitals) = 2

\* C3: after hospital h1 has rejected a pending entry, the entry is in h1's
\* own list and, through the pending arm, in the list of every other hospital
\* that has not rejected it.
C3_RejectedStaysVisible ==
    [][\A h1 \in Hospitals, i \in Ids :
          /\ (PatchedD(h1, i, "rejected") /\ donations[i].status = "pending") =>
                /\ i \in ListDonations(h1)'
                /\ \A h2 \in Hospitals \ {h1} :
                      ~ existingRejection(donations'[i], h2) =>
                          PendingArm(donations'[i], h2) /\ i \in ListDonations(h2)'
          /\ (PatchedR(h1, i, "rejected") /\ requests[i].status = "pending") =>
                /\ i \in ListRequests(h1)'
                /\ \A h2 \in Hospitals \ {h1} :
                      ~ existingRejection(requests'[i], h2) =>
                          PendingArm(requests'[i], h2) /\ i \in ListRequests(h2)']_vars

\* C3 witness: a pending request rejected by h1 only, listed for h1 and h2.
C3_Witness ==
    \E i \in Ids : /\ requests[i] # NoDoc
                   /\ requests[i].status = "pending"
                   /\ existingRejection(requests[i], "h1")
                   /\ ~ existingRejection(requests[i], "h2")
                   /\ i \in ListRequests("h1") \cap ListRequests("h2")

\* C4: once hospital h has rejected an entry, the entry stays in h's list in
\* every later state in which it has not been deleted, whatever its status.
C4_RejecterKeepsSight ==
    [][\A h \in Hospitals, i \in Ids :
          /\ (TouchedD(i) /\
              ((donations[i] # NoDoc /\ existingRejection(donations[i], h))
                 \/ existingRejection(donations'[i], h))) =>
                existingRejection(donations'[i], h) /\ i \in ListDonations(h)'
          /\ (TouchedR(i) /\
              ((requests[i] # NoDoc /\ existingRejection(requests[i], h))
                 \/ existingRejection(requests'[i], h))) =>
                existingRejection(requests'[i], h) /\ i \in ListRequests(h)']_vars

\* C4 witness: a request h1 rejected, completed since by h2, in h1's list.
C4_Witness ==
    \E i \in Ids : /\ requests[i] # NoDoc
                   /\ existingRejection(requests[i], "h1")
                   /\ requests[i].status = "completed"
                   /\ requests[i].hospitalId = "h2"
                   /\ i \in ListRequests("h1")

\* the views of an entry approved by hospital h: no hospital's pending arm,
\* the approved arm of h and of no other hospital
ApprovedViews(doc, h) ==
    \A g \in Hospitals : ~ PendingArm(doc, g) /\ (ApprovedArm(doc, g) <=> g = h)

\* the stored result of an approve by h
ApprovedBy(doc, h) ==
    doc.status = "approved" /\ doc.hospitalId = h /\ doc.approvedBy = h

C6_TimestampsSetOnce ==
    [][\A i \in Ids :
          /\ KeptD(i) =>
                /\ donations[i].approvedAt # NoDate =>
                      donations'[i].approvedAt = donations[i].approvedAt
                /\ donations[i].completedAt # NoDate =>
                      donations'[i].completedAt = donations[i].completedAt
          /\ KeptR(i) =>
                /\ requests[i].approvedAt # NoDate =>
                      requests'[i].approvedAt = requests[i].approvedAt
                /\ requests[i].completedAt # NoDate =>
                      requests'[i].completedAt = requests[i].completedAt]_vars

\* C6 witness: a request approved, completed and approved again, which still
\* carries the approvedAt of the first approve.
C6_Witness ==
    \E i \in Ids : /\ requests[i] # NoDoc
                   /\ requests[i].status = "approved"
                   /\ requests[i].approvedAt # NoDate
                   /\ requests[i].completedAt # NoDate
                   /\ requests[i].approvedAt < requests[i].completedAt

\* C7: approvedBy is set once: an identity it holds is not replaced by a
\* different identity in any later step on the entry.
C7_ApprovedBySetOnce ==
    [][\A i \in Ids :
          /\ (KeptD(i) /\ donations[i].approvedBy # NoId) =>
                donations'[i].approvedBy = donations[i].approvedBy
          /\ (KeptR(i) /\ requests[i].approvedBy # NoId) =>
                requests'[i].approvedBy = requests[i].approvedBy]_vars

\* C8: in every reachable state hospitalId of a donation or request is set
\* if and only if its status is approved or completed.
C8_AssignedIffApprovedOrCompleted ==
    \A i \in Ids : \A doc \in Docs(i) :
        doc.hospitalId # NoId <=> doc.status \in {"approved", "completed"}

\* C9: once an entry is completed, no later approve, reject, complete,
\* cancel or patientId reassignment changes any of its fields.
C9_CompletedIsFinal ==
    [][\A i \in Ids :
          /\ (KeptD(i) /\ donations[i].status = "completed") => donations'[i] = donations[i]
          /\ (KeptR(i) /\ requests[i].status = "completed") => requests'[i] = requests[i]]_vars

\* the edges of the status state machine
StatusEdge(from, to) ==
    \/ from = "pending" /\ to = "approved"
    \/ from = "approved" /\ to = "completed"
    \/ from = "pending" /\ to = "cancelled"

\* C10: the status of an entry changes only along the edges of the state
\* machine (pending to approved, approved to completed, pending to cancelled).
C10_StatusFollowsEdges ==
    [][\A i \in Ids :
          /\ (KeptD(i) /\ donations'[i].status # donations[i].status) =>
                StatusEdge(donations[i].status, donations'[i].status)
          /\ (KeptR(i) /\ requests'[i].status # requests[i].status) =>
                StatusEdge(requests[i].status, requests'[i].status)]_vars

\* C11: a complete by a hospital answers 200 only when that hospital is the
\* hospitalId of the entry, and a step of a complete by any other hospital
\* leaves status, hospitalId and approvedBy of the entry as they were.
C11_CompleteOnlyByAssigned ==
    [][\A h \in Hospitals, i \in Ids :
          /\ (donations[i] # NoDoc /\ donations[i].hospitalId # h) =>
                /\ PatchDonationCode(h, i, "completed", NoId) # 200
                /\ ~ PatchedD(h, i, "completed")
          /\ (requests[i] # NoDoc /\ requests[i].hospitalId # h) =>
                /\ PatchRequestCode(h, i, "completed") # 200
                /\ ~ PatchedR(h, i, "completed")]_vars

\* C12: a cancel of a pending donation by the donor who owns it answers 200
\* and the stored status is cancelled.
C12_DonorCancels ==
    \A i \in Ids :
        (donations[i] # NoDoc /\ donations[i].status = "pending") =>
            LET d == donations[i].donorId
            IN  /\ PatchDonationCode(d, i, "cancelled", NoId) = 200
                /\ DonationSaved(d, i, "cancelled", NoId).status = "cancelled"

\* C14: a reject by a caller whose type is not hospital is answered with an
\* authorization error, on a donation and on a request, and the document it
\* would store has the rejections it had.
C14_RejectOnlyByHospital ==
    \A c \in Accounts, i \in Ids :
        userType(c) # "hospital" =>
            /\ donations[i] # NoDoc =>
                  \A pid \in PatientIdInputs :
                      PatchDonationCode(c, i, "rejected", pid) \in {400, 403}
            /\ requests[i] # NoDoc =>
                  PatchRequestCode(c, i, "rejected") \in {400, 403}

\* C15: an approve by an admin of a pending entry, donation or request,
\* answers 200 and stores status approved with hospitalId and approvedBy of
\* the admin and approvedAt set.
AdminApproved(doc, a) ==
    /\ doc.status = "approved"
    /\ doc.hospitalId = a
    /\ doc.approvedBy = a
    /\ doc.approvedAt # NoDate
C15_AdminApproves ==
    \A a \in Accounts, i \in Ids :
        userType(a) = "admin" =>
            /\ (donations[i] # NoDoc /\ donations[i].status = "pending") =>
                  /\ PatchDonationCode(a, i, "approved", NoId) = 200
                  /\ AdminApproved(DonationSaved(a, i, "approved", NoId), a)
            /\ (requests[i] # NoDoc /\ requests[i].status = "pending") =>
                  /\ PatchRequestCode(a, i, "approved") = 200
                  /\ AdminApproved(RequestSaved(a, i, "approved"), a)

\* C19: for an id that holds no entry, deleted or never created, every status
\* update and every delete by any caller is answered 404.
C19_MissingIdIs404 ==
    \A c \in Accounts, i \in Ids :
        /\ donations[i] = NoDoc =>
              /\ DeleteDonationCode(c, i) = 404
              /\ \A status \in StatusInputs, pid \in PatientIdInputs :
                    PatchDonationCode(c, i, status, pid) = 404
        /\ requests[i] = NoDoc =>
              /\ DeleteRequestCode(c, i) = 404
              /\ \A status \in StatusInputs : PatchRequestCode(c, i, status) = 404

\* the (role, target) pairs of a status update that are not permitted
NotPermittedD(c, doc, status) ==
    \/ userType(c) = "patient"
    \/ userType(c) = "donor" /\ (status # "cancelled" \/ doc.donorId # c)
    \/ userType(c) = "hospital" /\ status \notin {"approved", "rejected", "completed"}
NotPermittedR(c, status) ==
    \/ userType(c) \in {"patient", "donor"}
    \/ userType(c) = "hospital" /\ status \notin {"approved", "rejected", "completed"}

\* C16: a status update whose (role, target) pair is not permitted (any
\* update by a patient, a donor update with a target other than cancelled, a
\* donor update of a donation of another donor, a donor update of a request,
\* a hospital update with a target outside approved, rejected, completed) is
\* answered with an error, and the call has no step that stores anything.
C16_NotPermittedFails ==
    \A c \in Accounts, i \in Ids, status \in StatusInputs :
        /\ (donations[i] # NoDoc /\ NotPermittedD(c, donations[i], status)) =>
              \A pid \in PatientIdInputs :
                  /\ PatchDonationCode(c, i, status, pid) \in {400, 403}
                  /\ ~ ENABLED PatchDonation(c, i, status, pid)
        /\ (requests[i] # NoDoc /\ NotPermittedR(c, status)) =>
              /\ PatchRequestCode(c, i, status) \in {400, 403}
              /\ ~ ENABLED PatchRequest(c, i, status)

\* a donation of one donor while another donor, a patient and a hospital have
\* accounts and their updates of it are answered 400
C16_Witness ==
    \E i \in Ids, c \in Accounts :
        /\ donations[i] # NoDoc
        /\ userType(c) = "donor" /\ donations[i].donorId # c
        /\ PatchDonationCode(c, i, "cancelled", NoId) = 400
        /\ \E h \in Hospitals : PatchDonationCode(h, i, "cancelled", NoId) = 400
        /\ \E p \in Accounts : userType(p) = "patient"
                                 /\ PatchDonationCode(p, i, "approved", "p1") = 400

\* the callers a delete is open to: the owner and every admin
MayDeleteD(c, doc) == userType(c) = "admin" \/ (userType(c) = "donor" /\ doc.donorId = c)
MayDeleteR(c, doc) == userType(c) = "admin" \/ (userType(c) = "patient" /\ doc.patientId = c)

\* C17: a delete by the owner of the entry or by an admin is answered 200 and
\* removes that entry and nothing else; a delete by a hospital, by a caller of
\* the owner role who does not own the entry, or by the other owner role is
\* answered 403 and no step of it changes the ledger.
C17_DeleteByOwnerOrAdmin ==
    [][\A c \in Accounts, i \in Ids :
          /\ donations[i] # NoDoc =>
                IF MayDeleteD(c, donations[i])
                THEN /\ DeleteDonationCode(c, i) = 200
                     /\ DeleteDonation(c, i) =>
                           /\ donations' = [donations EXCEPT ![i] = NoDoc]
                           /\ requests' = requests
                ELSE /\ DeleteDonationCode(c, i) = 403
                     /\ ~ DeleteDonation(c, i)
          /\ requests[i] # NoDoc =>
                IF MayDeleteR(c, requests[i])
                THEN /\ DeleteRequestCode(c, i) = 200
                     /\ DeleteRequest(c, i) =>
                           /\ requests' = [requests EXCEPT ![i] = NoDoc]
                           /\ donations' = donations
                ELSE /\ DeleteRequestCode(c, i) = 403
                     /\ ~ DeleteRequest(c, i)]_vars

\* an entry was created and deleted while a second owner of its role, a
\* hospital and an admin have accounts
C17_Witness ==
    /\ nextId > 1 /\ Docs(1) = {}
    /\ \E c, o \in Accounts : c # o /\ userType(c) = "donor" /\ userType(o) = "donor"
    /\ \E c, o \in Accounts : c # o /\ userType(c) = "patient" /\ userType(o) = "patient"

\* C18: the entry a delete has removed is in the list no caller gets, right
\* after the delete and in every later state (its id is not handed out again).
C18_DeletedNeverListed ==
    [][\A i \in Ids :
          /\ ((donations'[i] # donations[i] /\ \E c \in Accounts : DeleteDonation(c, i))
                  \/ (i < nextId /\ donations[i] = NoDoc)) =>
                \A u \in Accounts : i \notin ListDonations(u)'
          /\ ((requests'[i] # requests[i] /\ \E c \in Accounts : DeleteRequest(c, i))
                  \/ (i < nextId /\ requests[i] = NoDoc)) =>
                \A u \in Accounts : i \notin ListRequests(u)']_vars

\* every id handed out holds no entry: each entry created has been deleted
C18_Witness ==
    /\ nextId = MaxEntries + 1
    /\ \A i \in Ids : Docs(i) = {}
    /\ \A u \in Accounts : ListDonations(u) = {} /\ ListRequests(u) = {}

\* C20: a create by a caller of the owner role adds one entry and changes no
\* other: its status is pending, its owner the caller, its rejections empty,
\* and it is in the list of the owner and in the list of every hospital.
C20_CreateAddsPending ==
    [][\A c \in Accounts :
          /\ CreateDonation(c) =>
                LET i == nextId
                IN  /\ donations[i] = NoDoc
                    /\ donations' = [donations EXCEPT ![i] = donations'[i]]
                    /\ requests' = requests
                    /\ donations'[i].status = "pending"
                    /\ donations'[i].donorId = c
                    /\ donations'[i].rejectedByHospitals = EmptyBag
                    /\ \A u \in Hospitals \cup {c} : i \in ListDonations(u)'
          /\ CreateRequest(c) =>
                LET i == nextId
                IN  /\ requests[i] = NoDoc
                    /\ requests' = [requests EXCEPT ![i] = requests'[i]]
                    /\ donations' = donations
                    /\ requests'[i].status = "pending"
                    /\ requests'[i].patientId = c
                    /\ requests'[i].rejectedByHospitals = EmptyBag
                    /\ \A u \in Hospitals \cup {c} : i \in ListRequests(u)']_vars

\* the state right after a create: the newest entry is pending, owned by an
\* account of the owner role, unassigned and without rejections
C20_Witness ==
    \E i \in Ids : \E doc \in Docs(i) :
        /\ nextId = i + 1
        /\ doc.status = "pending"
        /\ doc.rejectedByHospitals = EmptyBag
        /\ doc.hospitalId = NoId
        /\ Hospitals # {}

\* the document is approved with hospitalId, hospitalName and approvedBy of h
ClaimedBy(doc, h) ==
    /\ doc.status = "approved"
    /\ doc.hospitalId = h
    /\ doc.hospitalName = hospitalNameOf(h)
    /\ doc.approvedBy = h

\* C13: when the handlers of two hospitals have both read the same pending
\* entry and both save an approve, each save is answered 200 whatever the
\* other has stored in between, and after each save the stored entry is
\* approved with hospitalId, hospitalName and approvedBy all of the hospital
\* that has just saved: the last writer wins on every path, no mixture.
C13_LastApproveWins ==
    [][\A c \in Hospitals :
          (held[c] # Idle /\ held[c].doc.status = "pending") =>
              LET i == held[c].id
              IN  /\ (held[c].coll = "donations" /\ donations[i] # NoDoc) =>
                        /\ SaveDonationCode(c, "approved", NoId) = 200
                        /\ SaveDonation(c, "approved", NoId) =>
                              ClaimedBy(donations'[i], c)
                  /\ (held[c].coll = "requests" /\ requests[i] # NoDoc) =>
                        /\ SaveRequestCode(c, "approved") = 200
                        /\ SaveRequest(c, "approved") => ClaimedBy(requests'[i], c)]_vars

\* both hospitals have approved the entry from the pending document each had
\* read: each save has stamped approvedAt, and the second writer owns it
C13_Witness ==
    \E i \in Ids : \E doc \in Docs(i) : \E h \in Hospitals :
        /\ ClaimedBy(doc, h)
        /\ doc.approvedAt = 2
        /\ doc.completedAt = NoDate
        /\ nextId = 2
        /\ \A u \in UserIds : held[u] = Idle

\* the entries the role policy names for a hospital
HospitalPolicy(doc, h) ==
    \/ doc.status = "pending" /\ ~ BagIn(h, doc.rejectedByHospitals)
    \/ doc.status \in {"approved", "rejected"} /\ doc.hospitalId = h
    \/ BagIn(h, doc.rejectedByHospitals)

\* C21: in every state the lists a caller gets hold exactly the entries the
\* policy of its role names: a donor its own donations, a patient its own
\* requests, an admin every entry, a hospital the union of the three rules.
C21_ListIsPolicy ==
    \A c \in Accounts :
        LET D == {i \in Ids : donations[i] # NoDoc}
            R == {i \in Ids : requests[i] # NoDoc}
        IN  /\ userType(c) = "donor" =>
                  /\ ListDonations(c) = {i \in D : donations[i].donorId = c}
                  /\ ListRequests(c) = {}
            /\ userType(c) = "patient" =>
                  /\ ListRequests(c) = {i \in R : requests[i].patientId = c}
                  /\ ListDonations(c) = {}
            /\ userType(c) = "admin" =>
                  ListDonations(c) = D /\ ListRequests(c) = R
            /\ userType(c) = "hospital" =>
                  /\ ListDonations(c) = {i \in D : HospitalPolicy(donations[i], c)}
                  /\ ListRequests(c) = {i \in R : HospitalPolicy(requests[i], c)}

\* C22: in every state hospitalId and approvedBy of an entry are both unset
\* or both set to the same identity; so they agree on every approved entry.
C22_AssigneeIsApprover ==
    \A i \in Ids : \A doc \in Docs(i) : doc.hospitalId = doc.approvedBy

\* a request that was approved and then completed: both paths are set
C22_Witness ==
    \E i \in Ids :
        /\ requests[i] # NoDoc
        /\ requests[i].status = "completed"
        /\ requests[i].approvedAt # NoDate
        /\ requests[i].approvedBy # NoId
        /\ requests[i].hospitalId = requests[i].approvedBy

\* C29: in every state the status of every donation and request is pending,
\* approved or completed, so the rejected arm of the hospital query selects
\* no entry for any hospital.
C29_StatusNeverRejected ==
    \A i \in Ids : \A doc \in Docs(i) :
        /\ doc.status \in {"pending", "approved", "completed"}
        /\ \A h \in Hospitals : ~ RejectedArm(doc, h)

\* a donation both hospitals have rejected and one of them has then approved
C29_Witness ==
    \E i \in Ids :
        /\ donations[i] # NoDoc
        /\ donations[i].status = "approved"
        /\ BagCardinality(donations[i].rejectedByHospitals) = 2
        /\ existingRejection(donations[i], donations[i].hospitalId)

\* a step in which the hospital the approved entry is assigned to completes it
CompletedByAssignedD(h, i) ==
    /\ donations[i] # NoDoc /\ donations'[i] # NoDoc
    /\ donations[i].status = "approved" /\ donations[i].hospitalId = h
    /\ donations'[i].status = "completed"
    /\ PatchedD(h, i, "completed")
CompletedByAssignedR(h, i) ==
    /\ requests[i] # NoDoc /\ requests'[i] # NoDoc
    /\ requests[i].status = "approved" /\ requests[i].hospitalId = h
    /\ requests'[i].status = "completed"
    /\ PatchedR(h, i, "completed")

\* C30 as stated: after the hospital assigned to an approved entry completes
\* it, the entry is in the list that hospital gets.
C30_CompleterKeepsSight ==
    [][\A h \in Hospitals, i \in Ids :
          /\ CompletedByAssignedD(h, i) => i \in ListDonations(h)'
          /\ CompletedByAssignedR(h, i) => i \in ListRequests(h)']_vars

\* C30 amended: after the hospital assigned to an approved entry completes
\* it, the entry is in the list that hospital gets exactly when the hospital
\* has an element in its rejections.
C30_CompleterSeesOwnRejections ==
    [][\A h \in Hospitals, i \in Ids :
          /\ CompletedByAssignedD(h, i) =>
                (i \in ListDonations(h)' <=> existingRejection(donations'[i], h))
          /\ CompletedByAssignedR(h, i) =>
                (i \in ListRequests(h)' <=> existingRejection(requests'[i], h))]_vars

\* a request completed by the hospital that approved it and never rejected
\* it: that hospital's list does not hold it
C30_Witness ==
    \E i \in Ids : \E h \in Hospitals :
        /\ requests[i] # NoDoc
        /\ requests[i].status = "completed"
        /\ requests[i].hospitalId = h
        /\ requests[i].completedAt # NoDate /\ requests[i].approvedAt # NoDate
        /\ ~ existingRejection(requests[i], h)
        /\ i \notin ListRequests(h)

\* C24: a donation creation whose statistics update fails because there is
\* no Stats document is answered with an error, the new pending donation
\* stays stored and is returned by the owner's list, and stats is unchanged.
C24_NoRollback ==
    [][\A c \in Accounts :
        (stats = NoStats /\ CreateDonation(c)) =>
            /\ CreateDonationCode(c) = 400
            /\ donations'[nextId] # NoDoc
            /\ donations'[nextId].status = "pending"
            /\ nextId \in ListDonations(c)'
            /\ stats' = stats]_vars

C24_Witness ==
    /\ stats = NoStats
    /\ \E i \in Ids : /\ donations[i] # NoDoc
                       /\ donations[i].status = "pending"
                       /\ i \in ListDonations(donations[i].donorId)

\* C26: no operation open to an unauthenticated caller creates a user of
\* type admin: a registration with type admin is never accepted.
C26_RegisterNeverAdmin ==
    \A u \in Registrants : ~ ENABLED Register(u, "admin")

\* C27: delete-user removes a user only for a caller of type admin, an
\* admin only for the main admin, never the account of the main email, and
\* answers 200; every other call changes neither the users nor stats.
C27_DeleteUserGuarded ==
    \A c \in UserIds, t \in UserIds :
        ENABLED DeleteUser(c, t) =>
            /\ userType(c) = "admin"
            /\ userType(t) = "admin" => users[c].email = MainEmail
            /\ users[t].email # MainEmail
            /\ DeleteUserCode(c, t) = 200

C27_Witness ==
    /\ stats # NoStats
    /\ stats.totalUsers = 0
    /\ \A u \in Registrants : users[u] = NoUser

\* C28: no step changes the type of an account of type donor, patient or
\* hospital.
C28_TypeIsFixed ==
    [][\A c \in Accounts :
        (userType(c) \in {"donor", "patient", "hospital"} /\ users'[c] # NoUser)
            => users'[c].type = userType(c)]_vars

\* C25: the fifth consecutive failed attempt locks the account for
\* LockHours, and a locked account stays locked, with loginAttempts and
\* lockUntil unchanged, until the expiry.
C25_LockedUntilExpiry ==
    [][\A u \in Accounts :
        /\ (users[u].loginAttempts = MaxAttempts - 1 /\ ~ isLocked(users[u])
              /\ users'[u].loginAttempts = MaxAttempts)
                => (isLocked(users[u])' /\ users'[u].lockUntil = now + LockHours)
        /\ (isLocked(users[u]) /\ now' < users[u].lockUntil)
                => /\ isLocked(users[u])'
                   /\ LoginCode(u, TRUE)' = 423
                   /\ users'[u].loginAttempts = users[u].loginAttempts
                   /\ users'[u].lockUntil = users[u].lockUntil]_vars

\* C23: the save of a donation creation stores the counter it read plus
\* one and answers 201: when the stored counter is still the one read (no
\* overlap) it grows by exactly 1, and when one other creation saved it
\* since the read, the counter does not grow.
C23_ReadModifyWrite ==
    [][\A c \in Accounts :
        (held[c].kind = "read" /\ held'[c].kind = "answered") =>
            /\ held'[c].code = 201
            /\ donations'[held[c].id] # NoDoc
            /\ held[c].stats = stats
                  => stats'.totalDonations = stats.totalDonations + 1
            /\ stats'.totalDonations = held[c].stats.totalDonations + 1
            /\ stats.totalDonations = held[c].stats.totalDonations + 1
                  => stats'.totalDonations = stats.totalDonations]_vars

\* two creations stored and answered 201, the counter grown by 1
C23_Witness ==
    /\ donations[1] # NoDoc /\ donations[2] # NoDoc
    /\ donations[1].donorId # donations[2].donorId
    /\ held[donations[1].donorId] = Answered(201)
    /\ held[donations[2].donorId] = Answered(201)
    /\ stats.totalDonations = 1
====
